---- MODULE Spec2Model ----
(***************************************************************************)
(* State-machine model of the memory stores of the repository:             *)
(*   MemorySystem    (brain/agents/memory.py): SQLite tables memories,     *)
(*                   context_index, associations, and the in-process       *)
(*                   working_memory dict;                                  *)
(*   MemoryDatabase  (brain/tools/memory.py): SQLite tables memories and   *)
(*                   tags behind one long-lived connection.                *)
(* The two classes open different databases (db_path defaults              *)
(* 'brain/data/memory.db' and ':memory:'), so each has its own tables and  *)
(* its own id sequence.                                                    *)
(*                                                                         *)
(* Encodings.  REAL columns (importance, strength) are integers in tenths: *)
(* 5 is 0.5.  Timestamps (datetime.now().isoformat(), whose string order   *)
(* is the time order) are integers 1..MaxNow; 0 is SQL NULL.  The clock    *)
(* never runs backwards but two reads may return the same microsecond.     *)
(***************************************************************************)
EXTENDS Integers, Sequences, FiniteSets, TLC

VARIABLES
    memories,        \* MemorySystem: table memories, id -> row
    seq,             \* MemorySystem: sqlite_sequence of memories (AUTOINCREMENT)
    context_index,   \* MemorySystem: table context_index, a set of rows
    associations,    \* MemorySystem: table associations, a set of rows
    issued,          \* history: the ids MemorySystem.store has returned
    evicted,         \* history: the ids of the records cleanup has deleted
    working_memory,  \* MemorySystem.working_memory, the dict in insertion order
    write_order,     \* history: the keys of working_memory, least recently written first
    db_memories,     \* MemoryDatabase: table memories as self.conn sees it
    db_seq,          \* MemoryDatabase: sqlite_sequence as self.conn sees it
    tags,            \* MemoryDatabase: table tags as self.conn sees it
    db_committed,    \* MemoryDatabase: the tables as of the last commit
    db_issued,       \* history: the ids MemoryDatabase.store has returned
    db_evicted,      \* history: the ids of the records delete has deleted
    short_term,      \* MemoryStore._short_term, a list of entries
    long_term,       \* MemoryStore._long_term, the dict in insertion order
    ms_seq,          \* MemoryStore: the number of ids _generate_id has produced
    ms_stored,       \* history: id -> the content and type MemoryStore.store was given
    calls,           \* MemorySystem: the calls in flight, one per caller
    threads,         \* MemorySystem.working_memory: the calls in flight, one per thread
    hits,            \* history: id -> the number of finished retrieve_by_context calls that returned it
    ret              \* the last call: its name, arguments and outcome

vars == <<memories, seq, context_index, associations, issued, evicted,
          working_memory, write_order,
          db_memories, db_seq, tags, db_committed, db_issued, db_evicted,
          short_term, long_term, ms_seq, ms_stored, calls, threads, hits, ret>>

sysVars == <<memories, seq, context_index, associations, issued, evicted>>
wmVars == <<working_memory, write_order>>
dbVars == <<db_memories, db_seq, tags, db_committed, db_issued, db_evicted>>
msVars == <<short_term, long_term, ms_seq, ms_stored>>
ccVars == <<calls, threads, hits>>

\* ------------------------------------------------------------------ bounds
\* Largest id the AUTOINCREMENT sequences hand out.
MaxId == 2
\* Cap on access_count (retrieve_by_context is disabled beyond it).
MaxAccess == 2
\* Largest clock reading.
MaxNow == 2
\* Cap on the number of rows of the associations table.
MaxEdges == 2
\* Number of distinct working-memory keys the callers use (1 = "a", 2 = "b", ...).
NumKeys == 3
\* self.working_memory_limit, an attribute the caller may set (100 by default).
working_memory_limit == 2
\* MemoryStore.short_term_capacity, a field the caller may set (100 by default).
short_term_capacity == 2
\* Cap on the number of MemoryStore.store calls.
MaxEntries == 4
\* Number of callers of one MemorySystem database that run at the same time.
NumCallers == 2
NumThreads == 2

\* ------------------------------------------------------- program constants
\* importance REAL DEFAULT 0.5, in tenths.
DefaultImportance == 5

\* SQL NULL, the value of last_accessed until the first access.
NULL == 0
\* Python None, what get_from_working_memory returns for a missing key.
None == 0

\* ------------------------------------------------------------------ inputs
Ids == 1..MaxId
Times == 1..MaxNow
ContextKeys == {"k1", "k2"}
\* "BAD" stands for a Python value sqlite3 cannot bind (a list, a dict).
ContextValues == {"v1", "v2", "BAD"}
\* A context is a Python dict: at most one value per key.
AllContexts == UNION {[D -> ContextValues] : D \in SUBSET ContextKeys}
Bindable(context) == \A k \in DOMAIN context : context[k] # "BAD"
\* The contexts the callers store.
StoreContexts ==
    {c \in AllContexts :
        \/ DOMAIN c = {}
        \/ DOMAIN c = {"k1"} /\ c["k1"] = "v1"
        \/ DOMAIN c = ContextKeys /\ c["k1"] = "v2" /\ c["k2"] = "v1"
        \/ DOMAIN c = ContextKeys /\ c["k1"] = "v1" /\ c["k2"] = "BAD"}
\* The contexts the callers query with.
QueryContexts ==
    {c \in AllContexts :
        \/ DOMAIN c = {}
        \/ DOMAIN c = {"k1"} /\ c["k1"] \in {"v1", "v2"}
        \/ DOMAIN c = {"k2"} /\ c["k2"] = "v1"
        \/ DOMAIN c = ContextKeys /\ c["k1"] = "v1" /\ c["k2"] = "v1"}
Limits == 1..MaxId
\* The contexts callers that overlap store and query with.
ConcurrentStoreContexts == {c \in StoreContexts : DOMAIN c = {"k1"}}
ConcurrentQueryContexts == {c \in QueryContexts : DOMAIN c = {"k1"} /\ c["k1"] = "v1"}
Importances == {2, 5, 6}
\* The strengths the callers pass; 1.5 lies outside [0, 1].
Strengths == {3, 9, 15}
\* The thresholds the callers pass to get_associated_memories (default 0.3).
MinStrengths == {3, 5}
\* The tag lists the callers store: none, one tag, two tags, a repeated tag,
\* a tag sqlite3 cannot bind after a good one.
TagLists == {<<>>, <<"t1">>, <<"t1", "t2">>, <<"t1", "t1">>, <<"t2", "BAD">>}
\* The importances the callers pass; 1.2 lies outside [0, 1].
DbImportances == {3, 8, 12}
\* The `updates` dicts the callers pass.
Updates ==
    {[importance |-> 8], [content |-> "y"], [tags |-> <<"t2">>]}
\* The values and the memory_type strings the callers of MemoryStore pass.
Contents == {"x", "y"}
MemoryTypes == {"short_term", "long_term"}
\* The attributes src/tests/test_brain.py looks up on a MemoryStore, and one
\* the class defines.
AttributeNames ==
    {"store_short_term", "get_short_term", "store_long_term", "get_long_term",
     "update_working_memory", "get_working_memory", "store"}
WMKeys == 1..NumKeys
Callers == 1..NumCallers
Threads == 1..NumThreads
WMValues == {1, 2}

\* ----------------------------------------------------------------- helpers
\* The sequences that list every element of S exactly once.
Perms(S) ==
    {s \in [1..Cardinality(S) -> S] : \A i, j \in 1..Cardinality(S) : s[i] = s[j] => i = j}

Range(s) == {s[i] : i \in DOMAIN s}

Prefix(s, n) == [i \in 1..(IF n < Len(s) THEN n ELSE Len(s)) |-> s[i]]

MaxOf(S) == IF S = {} THEN 0 ELSE CHOOSE m \in S : \A x \in S : x <= m

\* A clock reading: not before any timestamp in `stamps`, possibly equal to it.
Readings(stamps) == {t \in Times : \A u \in stamps : u <= t}

\* ------------------------------------------------------------ MemorySystem
\* Autoincrement for a column declared without AUTOINCREMENT: one more than
\* the largest id in the table.
RowidAfterLargest(sequence, ids) == MaxOf(ids) + 1

\* id INTEGER PRIMARY KEY AUTOINCREMENT: one more than the largest id the
\* table has ever held, which sqlite_sequence records.
Autoincrement(sequence, ids) == MaxOf(ids \cup {sequence}) + 1

\* Rows of context_index written for one record: one per dict item.
IndexRows(memory_id, context) ==
    {[memory_id |-> memory_id, context_key |-> k, context_value |-> context[k]] :
        k \in DOMAIN context}

\* store(content, context): INSERT the record (importance, access_count and
\* last_accessed take their column defaults), then one context_index row per
\* item.  An item sqlite3 cannot bind raises inside the `with` block, whose
\* exit rolls the transaction back, sqlite_sequence included.
store(context) ==
    /\ seq < MaxId
    /\ LET memory_id == Autoincrement(seq, DOMAIN memories)
       IN IF Bindable(context)
          THEN /\ memories' = [id \in DOMAIN memories \cup {memory_id} |->
                                 IF id = memory_id
                                 THEN [importance |-> DefaultImportance,
                                       access_count |-> 0,
                                       last_accessed |-> NULL,
                                       context |-> context]
                                 ELSE memories[id]]
               /\ seq' = memory_id
               /\ context_index' = context_index \cup IndexRows(memory_id, context)
               /\ issued' = issued \cup {memory_id}
               /\ ret' = [op |-> "store", raised |-> FALSE, val |-> memory_id]
          ELSE /\ UNCHANGED <<memories, seq, context_index, issued>>
               /\ ret' = [op |-> "store", raised |-> TRUE, val |-> 0]
    /\ UNCHANGED <<associations, evicted, wmVars, dbVars, msVars, ccVars>>

\* Matches with the join read as "every index row of the record is queried".
MatchesEveryItem(context) ==
    {id \in DOMAIN memories :
        /\ \E ci \in context_index : ci.memory_id = id
        /\ \A ci \in context_index :
              ci.memory_id = id =>
                 \E k \in DOMAIN context :
                    ci.context_key = k /\ ci.context_value = context[k]}

\* Matches with the condition on ci.context_value lost: a queried key is
\* enough.
MatchesKeyOnly(context) ==
    {id \in DOMAIN memories :
        \E ci \in context_index :
            ci.memory_id = id /\ ci.context_key \in DOMAIN context}

\* The WHERE clause joined over context_index: some index row of the record
\* equals some queried (key, value) item.
Matches(context) ==
    {id \in DOMAIN memories :
        \E ci \in context_index :
            /\ ci.memory_id = id
            /\ \E k \in DOMAIN context :
                  ci.context_key = k /\ ci.context_value = context[k]}

\* ORDER BY m.importance DESC, m.access_count DESC: a before b is allowed.
OrderedBy(a, b) ==
    \/ memories[a].importance > memories[b].importance
    \/ /\ memories[a].importance = memories[b].importance
       /\ memories[a].access_count >= memories[b].access_count

\* The row orders the ORDER BY clause allows for the DISTINCT rows of M: SQL
\* leaves the order of rows that tie on every sort key to the engine.
Rankings(M) ==
    {s \in Perms(M) : \A i, j \in 1..Cardinality(M) : i < j => OrderedBy(s[i], s[j])}

\* Accessed with the UPDATE's "WHERE id = ?" lost: every row is counted.
AccessedEveryRow(ids, now) ==
    [id \in DOMAIN memories |->
        IF ids # {}
        THEN [memories[id] EXCEPT !.access_count = @ + 1, !.last_accessed = now]
        ELSE memories[id]]

\* The UPDATE loop over the fetched rows.
Accessed(ids, now) ==
    [id \in DOMAIN memories |->
        IF id \in ids
        THEN [memories[id] EXCEPT !.access_count = @ + 1, !.last_accessed = now]
        ELSE memories[id]]

\* EmptyWhere for a query whose WHERE clause is left out when there is no
\* condition.
EmptyWhereOmitted(context) == FALSE

\* query += " OR ".join(conditions): with no item in the context the text
\* reads "WHERE ORDER BY ...", which sqlite3 rejects when it prepares the
\* statement (OperationalError).
EmptyWhere(context) == DOMAIN context = {}

\* FetchedRows read back after the UPDATE loop.
FetchedRowsAfterUpdate(fetched) ==
    [i \in DOMAIN fetched |->
        [id |-> fetched[i],
         access_count |-> memories'[fetched[i]].access_count,
         last_accessed |-> memories'[fetched[i]].last_accessed]]

\* memories = cursor.fetchall(): the rows as the SELECT read them, from which
\* the returned dicts are built after the UPDATE loop.
FetchedRows(fetched) ==
    [i \in DOMAIN fetched |->
        [id |-> fetched[i],
         access_count |-> memories[fetched[i]].access_count,
         last_accessed |-> memories[fetched[i]].last_accessed]]

\* retrieve_by_context(context, limit).  An empty context leaves "WHERE"
\* without a condition: the SELECT raises and nothing is written.  The rows
\* returned carry the column values the SELECT read.
retrieve_by_context(context, limit) ==
    /\ IF EmptyWhere(context)
       THEN /\ UNCHANGED memories
            /\ ret' = [op |-> "retrieve_by_context", raised |-> TRUE,
                       context |-> context, limit |-> limit, val |-> <<>>]
       ELSE \E ranking \in Rankings(Matches(context)) :
              \E now \in Readings({memories[id].last_accessed : id \in DOMAIN memories}) :
                LET fetched == Prefix(ranking, limit)
                IN /\ \A id \in Range(fetched) : memories[id].access_count < MaxAccess
                   /\ memories' = Accessed(Range(fetched), now)
                   /\ ret' = [op |-> "retrieve_by_context", raised |-> FALSE,
                              context |-> context, limit |-> limit,
                              val |-> FetchedRows(fetched)]
    /\ UNCHANGED <<seq, context_index, associations, issued, evicted, wmVars, dbVars, msVars, ccVars>>

\* InsertOrReplace as a plain INSERT into a table without the primary key.
InsertPlain(source_id, target_id, strength) ==
    associations
        \cup {[source_id |-> source_id, target_id |-> target_id, strength |-> strength]}

\* INSERT OR REPLACE on PRIMARY KEY(source_id, target_id): the rows with the
\* same key are deleted, then the new row is inserted.  Foreign keys are
\* declared but SQLite does not enforce them unless PRAGMA foreign_keys is
\* set, and the code never sets it: any pair of integers is accepted.
InsertOrReplace(source_id, target_id, strength) ==
    {a \in associations : ~(a.source_id = source_id /\ a.target_id = target_id)}
        \cup {[source_id |-> source_id, target_id |-> target_id, strength |-> strength]}

create_association(source_id, target_id, strength) ==
    /\ Cardinality(InsertOrReplace(source_id, target_id, strength)) <= MaxEdges
    /\ associations' = InsertOrReplace(source_id, target_id, strength)
    /\ ret' = [op |-> "create_association", source_id |-> source_id,
               target_id |-> target_id, strength |-> strength,
               replaced |-> {a.strength : a \in {b \in associations :
                               b.source_id = source_id /\ b.target_id = target_id}}]
    /\ UNCHANGED <<memories, seq, context_index, issued, evicted, wmVars, dbVars, msVars, ccVars>>

\* AssociatedRows read off the associations table alone, without the join.
AssociatedRowsUnjoined(memory_id, min_strength) ==
    {a \in associations : a.source_id = memory_id /\ a.strength >= min_strength}

\* AssociatedRows with ">" in place of ">=".
AssociatedRowsAbove(memory_id, min_strength) ==
    {a \in associations :
        /\ a.target_id \in DOMAIN memories
        /\ a.source_id = memory_id
        /\ a.strength > min_strength}

\* FROM memories m JOIN associations a ON m.id = a.target_id
\* WHERE a.source_id = ? AND a.strength >= ?: the edges out of memory_id
\* whose target is a row of memories.  Nothing is asked of memory_id itself.
AssociatedRows(memory_id, min_strength) ==
    {a \in associations :
        /\ a.target_id \in DOMAIN memories
        /\ a.source_id = memory_id
        /\ a.strength >= min_strength}

\* ORDER BY a.strength DESC: the orders the clause allows for the rows of E.
StrengthOrders(E) ==
    {s \in Perms(E) : \A i, j \in 1..Cardinality(E) : i < j => s[i].strength >= s[j].strength}

\* get_associated_memories counting an access on each target, as
\* retrieve_by_context does.
get_associated_memories_counting(memory_id, min_strength) ==
    /\ \E rows \in StrengthOrders(AssociatedRows(memory_id, min_strength)) :
          /\ ret' = [op |-> "get_associated_memories", raised |-> FALSE,
                     memory_id |-> memory_id, min_strength |-> min_strength,
                     val |-> [i \in DOMAIN rows |->
                                [id |-> rows[i].target_id,
                                 association_strength |-> rows[i].strength]]]
          /\ \A i \in DOMAIN rows : memories[rows[i].target_id].access_count < MaxAccess
          /\ memories' = Accessed({rows[i].target_id : i \in DOMAIN rows}, MaxNow)
    /\ UNCHANGED <<seq, context_index, associations, issued, evicted, wmVars, dbVars, msVars, ccVars>>

\* get_associated_memories(memory_id, min_strength): one SELECT, no write;
\* each row becomes a dict of the record's columns and association_strength.
\* No statement looks memory_id up: for an id without a record the SELECT
\* finds what edges name it as source, or nothing, and the call returns.
get_associated_memories(memory_id, min_strength) ==
    /\ \E rows \in StrengthOrders(AssociatedRows(memory_id, min_strength)) :
          ret' = [op |-> "get_associated_memories", raised |-> FALSE,
                  memory_id |-> memory_id, min_strength |-> min_strength,
                  val |-> [i \in DOMAIN rows |->
                             [id |-> rows[i].target_id,
                              association_strength |-> rows[i].strength]]]
    /\ UNCHANGED <<sysVars, wmVars, dbVars, msVars, ccVars>>

\* MemoriesToRemove with "importance <= ?".
MemoriesToRemoveAtOrBelow(min_importance, min_access_count) ==
    {id \in DOMAIN memories :
        /\ memories[id].importance <= min_importance
        /\ memories[id].access_count < min_access_count}

\* MemoriesToRemove with OR in place of AND.
MemoriesToRemoveEither(min_importance, min_access_count) ==
    {id \in DOMAIN memories :
        \/ memories[id].importance < min_importance
        \/ memories[id].access_count < min_access_count}

\* SELECT id FROM memories WHERE importance < ? AND access_count < ?
MemoriesToRemove(min_importance, min_access_count) ==
    {id \in DOMAIN memories :
        /\ memories[id].importance < min_importance
        /\ memories[id].access_count < min_access_count}

\* DeleteIndexRows with the DELETE left out.
DeleteIndexRowsSkipped(ids) == context_index

\* DeleteAssociations without "OR target_id = ?".
DeleteAssociationsOutbound(ids) == {a \in associations : a.source_id \notin ids}

\* DELETE FROM context_index WHERE memory_id = ?, for each id of ids.
DeleteIndexRows(ids) == {ci \in context_index : ci.memory_id \notin ids}

\* DELETE FROM associations WHERE source_id = ? OR target_id = ?, for each id.
DeleteAssociations(ids) ==
    {a \in associations : a.source_id \notin ids /\ a.target_id \notin ids}

\* cleanup(min_importance, min_access_count): for each selected id, DELETE its
\* context_index rows, the associations where it is source or target, and
\* the record; one commit; returns len(memories_to_remove).  index_rows and
\* edge_rows are the row counts of the first two DELETEs.
cleanup(min_importance, min_access_count) ==
    LET memories_to_remove == MemoriesToRemove(min_importance, min_access_count)
    IN /\ context_index' = DeleteIndexRows(memories_to_remove)
       /\ associations' = DeleteAssociations(memories_to_remove)
       /\ memories' = [id \in DOMAIN memories \ memories_to_remove |-> memories[id]]
       /\ evicted' = evicted \cup memories_to_remove
       /\ ret' = [op |-> "cleanup", min_importance |-> min_importance,
                  min_access_count |-> min_access_count,
                  index_rows |-> Cardinality(context_index \ context_index'),
                  edge_rows |-> Cardinality(associations \ associations'),
                  val |-> Cardinality(memories_to_remove)]
       /\ UNCHANGED <<seq, issued, wmVars, dbVars, msVars, ccVars>>

\* ---------------------------------------------------------- working memory
\* working_memory is a dict: a sequence of items in insertion order, one per
\* key.
HasKey(wm, key) == \E i \in DOMAIN wm : wm[i].key = key

\* self.working_memory[key] = {...}: an existing key keeps its position in
\* the dict, a new key is appended.
Assign(wm, key, value, now) ==
    LET item == [key |-> key, value |-> value, timestamp |-> now]
    IN IF HasKey(wm, key)
       THEN [i \in DOMAIN wm |-> IF wm[i].key = key THEN item ELSE wm[i]]
       ELSE Append(wm, item)

\* sorted(items, key=timestamp, reverse=True): descending, and stable, so
\* items with equal timestamps keep their dict order.
SortedItems(wm) ==
    LET order == CHOOSE p \in Perms(DOMAIN wm) :
                    \A i, j \in DOMAIN wm :
                        i < j => \/ wm[p[i]].timestamp > wm[p[j]].timestamp
                                 \/ /\ wm[p[i]].timestamp = wm[p[j]].timestamp
                                    /\ p[i] < p[j]
    IN [i \in DOMAIN wm |-> wm[order[i]]]

\* PruneWorkingMemory with the slice one too long.
PruneWorkingMemoryOffByOne(wm) == Prefix(SortedItems(wm), working_memory_limit + 1)

\* dict(sorted_items[:self.working_memory_limit])
PruneWorkingMemory(wm) == Prefix(SortedItems(wm), working_memory_limit)

KeysOf(wm) == {wm[i].key : i \in DOMAIN wm}

\* The sequence s without the elements outside S.
Restrict(s, S) == SelectSeq(s, LAMBDA k : k \in S)

\* update_working_memory(key, value): assign with the clock's reading, then
\* prune if the dict has outgrown the limit.
update_working_memory(key, value) ==
    /\ \E now \in Readings({working_memory[i].timestamp : i \in DOMAIN working_memory}) :
         LET assigned == Assign(working_memory, key, value, now)
             pruned == Len(assigned) > working_memory_limit
         IN /\ working_memory' = IF pruned THEN PruneWorkingMemory(assigned) ELSE assigned
            /\ write_order' = Restrict(Append(Restrict(write_order, KeysOf(assigned) \ {key}), key),
                                       KeysOf(working_memory'))
            /\ ret' = [op |-> "update_working_memory", key |-> key,
                       value |-> value, now |-> now, pruned |-> pruned]
    /\ UNCHANGED <<sysVars, dbVars, msVars, ccVars>>

get_from_working_memory(key) ==
    /\ ret' = [op |-> "get_from_working_memory", key |-> key,
               val |-> IF HasKey(working_memory, key)
                       THEN (CHOOSE v \in WMValues :
                               \E i \in DOMAIN working_memory :
                                   working_memory[i].key = key /\ working_memory[i].value = v)
                       ELSE None]
    /\ UNCHANGED <<wmVars, sysVars, dbVars, msVars, ccVars>>

\* ---------------------------------------------------------- MemoryDatabase
\* self.conn is opened once and kept: a statement that raises leaves the
\* transaction open, and the next commit on the connection commits what the
\* transaction then holds.
DbView == [memories |-> db_memories, tags |-> tags, seq |-> db_seq]

\* executemany("INSERT INTO tags ..."): the first position whose row cannot
\* be written, or 0.  A value sqlite3 cannot bind raises ProgrammingError, a
\* row that repeats PRIMARY KEY(memory_id, tag) raises IntegrityError.
FailAt(memory_id, tag_list) ==
    LET bad == {i \in DOMAIN tag_list :
                   \/ tag_list[i] = "BAD"
                   \/ [memory_id |-> memory_id, tag |-> tag_list[i]] \in tags
                   \/ \E j \in 1..(i - 1) : tag_list[j] = tag_list[i]}
    IN IF bad = {} THEN 0 ELSE CHOOSE i \in bad : \A j \in bad : i <= j

\* The rows executemany wrote before it stopped.
TagRows(memory_id, tag_list) ==
    LET stop == FailAt(memory_id, tag_list)
        n == IF stop = 0 THEN Len(tag_list) ELSE stop - 1
    IN {[memory_id |-> memory_id, tag |-> tag_list[i]] : i \in 1..n}

\* MemoryDatabase.store(memory_type, content, tags, metadata, importance):
\* INSERT the record, executemany the tags, commit.  When executemany raises,
\* the exception leaves store before the commit and nothing rolls back: the
\* record and the tag rows already written stay in the open transaction.
db_store(tag_list, importance) ==
    /\ db_seq < MaxId
    /\ LET memory_id == Autoincrement(db_seq, DOMAIN db_memories)
           raised == FailAt(memory_id, tag_list) # 0
       IN /\ db_memories' = [id \in DOMAIN db_memories \cup {memory_id} |->
                               IF id = memory_id
                               THEN [content |-> "x", importance |-> importance]
                               ELSE db_memories[id]]
          /\ db_seq' = memory_id
          /\ tags' = tags \cup TagRows(memory_id, tag_list)
          /\ db_committed' = IF raised THEN db_committed ELSE DbView'
          /\ db_issued' = IF raised THEN db_issued ELSE db_issued \cup {memory_id}
          /\ UNCHANGED db_evicted
          /\ ret' = [op |-> "db_store", raised |-> raised, tag_list |-> tag_list,
                     val |-> IF raised THEN 0 ELSE memory_id]
    /\ UNCHANGED <<sysVars, wmVars, msVars, ccVars>>

\* MemoryDatabase.retrieve({'tags': tag_set}): LEFT JOIN tags t ON m.id =
\* t.memory_id WHERE t.tag IN (...), the records with a tag row in tag_set.
TagMatches(tag_set) ==
    {id \in DOMAIN db_memories : \E t \in tags : t.memory_id = id /\ t.tag \in tag_set}

\* The fields update() writes; any other key of `updates` is skipped.
UpdatableFields == {"content", "importance"}

\* MemoryDatabase.update(memory_id, updates): with no updatable field it
\* returns False before any statement; otherwise UPDATE, commit, and return
\* cursor.rowcount > 0.
db_update(memory_id, updates) ==
    /\ LET fields == DOMAIN updates \cap UpdatableFields
       IN IF fields = {}
          THEN /\ UNCHANGED dbVars
               /\ ret' = [op |-> "db_update", memory_id |-> memory_id,
                          updates |-> updates, val |-> FALSE]
          ELSE /\ db_memories' =
                     [id \in DOMAIN db_memories |->
                        IF id = memory_id
                        THEN [f \in DOMAIN db_memories[id] |->
                                IF f \in fields THEN updates[f] ELSE db_memories[id][f]]
                        ELSE db_memories[id]]
               /\ UNCHANGED <<db_seq, tags, db_issued, db_evicted>>
               /\ db_committed' = DbView'
               /\ ret' = [op |-> "db_update", memory_id |-> memory_id,
                          updates |-> updates,
                          val |-> memory_id \in DOMAIN db_memories]
    /\ UNCHANGED <<sysVars, wmVars, msVars, ccVars>>

\* DeleteTags without its WHERE clause.
DeleteTagsOfAll(memory_id) == {}

\* DELETE FROM tags WHERE memory_id = ?
DeleteTags(memory_id) == {t \in tags : t.memory_id # memory_id}

\* MemoryDatabase.delete(memory_id): DELETE the tags rows, DELETE the record,
\* commit, return the second DELETE's rowcount > 0.  No other table is named.
db_delete(memory_id) ==
    /\ tags' = DeleteTags(memory_id)
    /\ db_memories' = [id \in DOMAIN db_memories \ {memory_id} |-> db_memories[id]]
    /\ UNCHANGED <<db_seq, db_issued>>
    /\ db_committed' = DbView'
    /\ db_evicted' = db_evicted \cup ({memory_id} \cap DOMAIN db_memories)
    /\ ret' = [op |-> "db_delete", memory_id |-> memory_id,
               val |-> memory_id \in DOMAIN db_memories]
    /\ UNCHANGED <<sysVars, wmVars, msVars, ccVars>>

\* --------------------------------------- MemorySystem, calls that overlap
\* Every call opens its own connection (with sqlite3.connect(self.db_path)).
\* A SELECT runs outside a transaction and sees the committed tables; the
\* first UPDATE or DELETE of a call begins a transaction and takes the
\* database's write lock, which one connection holds at a time; what the
\* call writes becomes visible to the others at its commit.
Idle ==
    [pc |-> "idle", op |-> "none", context |-> <<>>, limit |-> 0,
     min_importance |-> 0, min_access_count |-> 0, rows |-> <<>>, ids |-> {}]

NoWriter == \A c \in Callers : calls[c].pc # "writing"

\* UpdatedRows writing the access_count the SELECT read, plus one.
UpdatedRowsFromRead(rows, now) ==
    [id \in DOMAIN memories |->
        IF \E i \in DOMAIN rows : rows[i].id = id
        THEN [memories[id] EXCEPT
                 !.access_count =
                     (CHOOSE n \in 0..(MaxAccess + NumCallers) :
                         \E i \in DOMAIN rows : rows[i].id = id /\ rows[i].access_count = n) + 1,
                 !.last_accessed = now]
        ELSE memories[id]]

\* UPDATE memories SET access_count = access_count + 1, last_accessed = ?
\* WHERE id = ?, for each fetched row: the increment is taken by SQLite from
\* the row as it is under the write lock; an id that no longer has a row is
\* updated nowhere.
UpdatedRows(rows, now) ==
    [id \in DOMAIN memories |->
        IF \E i \in DOMAIN rows : rows[i].id = id
        THEN [memories[id] EXCEPT !.access_count = @ + 1, !.last_accessed = now]
        ELSE memories[id]]

\* retrieve_by_context up to memories = cursor.fetchall().  With no row
\* fetched there is no UPDATE and the call returns [] at once.
retrieve_select(c, context, limit) ==
    /\ calls[c].pc = "idle"
    /\ ~EmptyWhere(context)
    /\ \E ranking \in Rankings(Matches(context)) :
          LET fetched == Prefix(ranking, limit)
          IN /\ \A id \in Range(fetched) : memories[id].access_count < MaxAccess
             /\ IF fetched = <<>>
                THEN /\ UNCHANGED calls
                     /\ ret' = [op |-> "retrieve_by_context", caller |-> c, raised |-> FALSE,
                                context |-> context, limit |-> limit, val |-> <<>>]
                ELSE /\ calls' = [calls EXCEPT ![c] =
                                     [Idle EXCEPT !.pc = "fetched", !.op = "retrieve_by_context",
                                                  !.context = context, !.limit = limit,
                                                  !.rows = FetchedRows(fetched)]]
                     /\ UNCHANGED ret
    /\ UNCHANGED <<sysVars, wmVars, dbVars, msVars, threads, hits>>

\* cleanup up to memories_to_remove = [...]; with no id selected there is no
\* DELETE and the call returns 0 at once.
cleanup_select(c, min_importance, min_access_count) ==
    /\ calls[c].pc = "idle"
    /\ LET memories_to_remove == MemoriesToRemove(min_importance, min_access_count)
       IN IF memories_to_remove = {}
          THEN /\ UNCHANGED calls
               /\ ret' = [op |-> "cleanup", caller |-> c, raised |-> FALSE,
                          min_importance |-> min_importance,
                          min_access_count |-> min_access_count, val |-> 0]
          ELSE /\ calls' = [calls EXCEPT ![c] =
                               [Idle EXCEPT !.pc = "fetched", !.op = "cleanup",
                                            !.min_importance = min_importance,
                                            !.min_access_count = min_access_count,
                                            !.ids = memories_to_remove]]
               /\ UNCHANGED ret
    /\ UNCHANGED <<sysVars, wmVars, dbVars, msVars, threads, hits>>

\* The first UPDATE (retrieve_by_context) or DELETE (cleanup) of the call:
\* the implicit BEGIN and the write lock.
begin_write(c) ==
    /\ calls[c].pc = "fetched"
    /\ NoWriter
    /\ calls' = [calls EXCEPT ![c].pc = "writing"]
    /\ UNCHANGED <<sysVars, wmVars, dbVars, msVars, threads, hits, ret>>

\* The write lock is held by another connection for longer than the
\* connection's timeout: sqlite3.OperationalError (database is locked), and
\* the call ends without a write.
database_is_locked(c) ==
    /\ calls[c].pc = "fetched"
    /\ ~NoWriter
    /\ calls' = [calls EXCEPT ![c] = Idle]
    /\ ret' = [op |-> calls[c].op, caller |-> c, raised |-> TRUE]
    /\ UNCHANGED <<sysVars, wmVars, dbVars, msVars, threads, hits>>

\* retrieve_by_context from the UPDATE loop to the return: the updates, the
\* commit, and the list built from the rows the SELECT fetched.
retrieve_commit(c) ==
    /\ calls[c].pc = "writing"
    /\ calls[c].op = "retrieve_by_context"
    /\ \E now \in Readings({memories[id].last_accessed : id \in DOMAIN memories}) :
          memories' = UpdatedRows(calls[c].rows, now)
    /\ hits' = [id \in Ids |->
                  IF \E i \in DOMAIN calls[c].rows : calls[c].rows[i].id = id
                  THEN hits[id] + 1 ELSE hits[id]]
    /\ calls' = [calls EXCEPT ![c] = Idle]
    /\ ret' = [op |-> "retrieve_by_context", caller |-> c, raised |-> FALSE,
               context |-> calls[c].context, limit |-> calls[c].limit,
               val |-> calls[c].rows]
    /\ UNCHANGED <<seq, context_index, associations, issued, evicted,
                   wmVars, dbVars, msVars, threads>>

\* cleanup from the DELETE loop to the return: the three DELETEs for each
\* selected id, the commit, and len(memories_to_remove).
cleanup_commit(c) ==
    /\ calls[c].pc = "writing"
    /\ calls[c].op = "cleanup"
    /\ context_index' = DeleteIndexRows(calls[c].ids)
    /\ associations' = DeleteAssociations(calls[c].ids)
    /\ memories' = [id \in DOMAIN memories \ calls[c].ids |-> memories[id]]
    /\ evicted' = evicted \cup (calls[c].ids \cap DOMAIN memories)
    /\ calls' = [calls EXCEPT ![c] = Idle]
    /\ ret' = [op |-> "cleanup", caller |-> c, raised |-> FALSE,
               min_importance |-> calls[c].min_importance,
               min_access_count |-> calls[c].min_access_count,
               val |-> Cardinality(calls[c].ids)]
    /\ UNCHANGED <<seq, issued, wmVars, dbVars, msVars, threads, hits>>

\* ------------------------------------------------------------- MemoryStore
\* EvictOldest dropping the entry inserted last.
EvictNewest(list) ==
    IF Len(list) >= short_term_capacity THEN SubSeq(list, 1, Len(list) - 1) ELSE list

\* if len(self._short_term) >= self.short_term_capacity: self._short_term.pop(0)
EvictOldest(list) ==
    IF Len(list) >= short_term_capacity THEN Tail(list) ELSE list

\* MemoryStore.store(content, memory_type): a new entry under a fresh id
\* (uuid4, here the next integer); a "short_term" entry is appended to the
\* list after the eviction, any other type is put into the dict.
ms_store(content, memory_type) ==
    /\ ms_seq < MaxEntries
    /\ LET entry == [id |-> ms_seq + 1, content |-> content, type |-> memory_type]
       IN /\ ms_seq' = entry.id
          /\ ms_stored' = Append(ms_stored, [content |-> content, type |-> memory_type])
          /\ IF memory_type = "short_term"
             THEN /\ short_term' = Append(EvictOldest(short_term), entry)
                  /\ UNCHANGED long_term
             ELSE /\ long_term' = Append(long_term, entry)
                  /\ UNCHANGED short_term
          /\ ret' = [op |-> "ms_store", memory_type |-> memory_type,
                     content |-> content, val |-> entry.id]
    /\ UNCHANGED <<sysVars, wmVars, dbVars, ccVars>>

\* The entries of `list` with the id memory_id.
WithId(list, memory_id) == SelectSeq(list, LAMBDA m : m.id = memory_id)

\* MemoryStore.retrieve(memory_id): the first short-term entry with the id,
\* or else the long-term entry of the id, or else None (found is FALSE).
ms_retrieve(memory_id) ==
    /\ LET entries == WithId(short_term, memory_id) \o WithId(long_term, memory_id)
       IN ret' = [op |-> "ms_retrieve", memory_id |-> memory_id,
                  found |-> entries # <<>>,
                  val |-> IF entries # <<>> THEN <<Head(entries)>> ELSE <<>>]
    /\ UNCHANGED <<sysVars, wmVars, dbVars, msVars, ccVars>>

\* MemoryStore.retrieve() without memory_id and without filters: every
\* short-term entry, then every long-term entry.
ms_retrieve_all ==
    /\ ret' = [op |-> "ms_retrieve_all", val |-> short_term \o long_term]
    /\ UNCHANGED <<sysVars, wmVars, dbVars, msVars, ccVars>>

\* The methods class MemoryStore defines.
Methods == {"store", "retrieve", "_generate_id", "_matches_filters"}

\* memory.<name>: an attribute the class does not define raises
\* AttributeError.
ms_getattr(name) ==
    /\ ret' = [op |-> "ms_getattr", name |-> name, raised |-> name \notin Methods]
    /\ UNCHANGED <<sysVars, wmVars, dbVars, msVars, ccVars>>

\* -------------------------------------------- working memory, thread by thread
\* The threads of one process share self.working_memory, and the class takes
\* no lock: a thread can be suspended between any two statements of
\* update_working_memory, _prune_working_memory and get_from_working_memory.

\* A thread that is in none of the three methods.
Resting == [pc |-> "idle", key |-> 0, sorted_items |-> <<>>]

\* self.working_memory[key] = {'value': value, 'timestamp': now}
wm_setitem(t, key, value) ==
    /\ threads[t].pc = "idle"
    /\ \E now \in Readings({working_memory[i].timestamp : i \in DOMAIN working_memory}) :
          working_memory' = Assign(working_memory, key, value, now)
    /\ write_order' = Append(Restrict(write_order, KeysOf(working_memory) \ {key}), key)
    /\ threads' = [threads EXCEPT ![t] = [pc |-> "assigned", key |-> key, sorted_items |-> <<>>]]
    /\ UNCHANGED <<sysVars, dbVars, msVars, calls, hits, ret>>

\* if len(self.working_memory) > self.working_memory_limit: enter
\* _prune_working_memory, else return.
wm_len(t) ==
    /\ threads[t].pc = "assigned"
    /\ IF Len(working_memory) > working_memory_limit
       THEN /\ threads' = [threads EXCEPT ![t].pc = "pruning"]
            /\ UNCHANGED ret
       ELSE /\ threads' = [threads EXCEPT ![t] = Resting]
            /\ ret' = [op |-> "update_working_memory", thread |-> t,
                       key |-> threads[t].key, pruned |-> FALSE]
    /\ UNCHANGED <<sysVars, wmVars, dbVars, msVars, calls, hits>>

\* sorted_items = sorted(self.working_memory.items(), ...): a list built from
\* the dict as it is now.
wm_sorted(t) ==
    /\ threads[t].pc = "pruning"
    /\ threads' = [threads EXCEPT ![t].pc = "sorted",
                                  ![t].sorted_items = SortedItems(working_memory)]
    /\ UNCHANGED <<sysVars, wmVars, dbVars, msVars, calls, hits, ret>>

\* self.working_memory = dict(sorted_items[:self.working_memory_limit]): the
\* attribute is rebound to a dict built from the thread's list.
wm_rebind(t) ==
    /\ threads[t].pc = "sorted"
    /\ working_memory' = Prefix(threads[t].sorted_items, working_memory_limit)
    /\ write_order' = Restrict(write_order, KeysOf(working_memory'))
    /\ threads' = [threads EXCEPT ![t] = Resting]
    /\ ret' = [op |-> "update_working_memory", thread |-> t,
               key |-> threads[t].key, pruned |-> TRUE]
    /\ UNCHANGED <<sysVars, dbVars, msVars, calls, hits>>

\* if key in self.working_memory: go on to the subscript, else return None.
wm_contains(t, key) ==
    /\ threads[t].pc = "idle"
    /\ IF HasKey(working_memory, key)
       THEN /\ threads' = [threads EXCEPT ![t] = [pc |-> "found", key |-> key,
                                                  sorted_items |-> <<>>]]
            /\ UNCHANGED ret
       ELSE /\ ret' = [op |-> "get_from_working_memory", thread |-> t, key |-> key,
                       raised |-> FALSE, val |-> None]
            /\ UNCHANGED threads
    /\ UNCHANGED <<sysVars, wmVars, dbVars, msVars, calls, hits>>

\* return self.working_memory[key]['value']: KeyError if the key has gone
\* since the membership test.
wm_getitem(t) ==
    /\ threads[t].pc = "found"
    /\ threads' = [threads EXCEPT ![t] = Resting]
    /\ ret' = IF HasKey(working_memory, threads[t].key)
              THEN [op |-> "get_from_working_memory", thread |-> t, key |-> threads[t].key,
                    raised |-> FALSE,
                    val |-> CHOOSE v \in WMValues :
                               \E i \in DOMAIN working_memory :
                                  /\ working_memory[i].key = threads[t].key
                                  /\ working_memory[i].value = v]
              ELSE [op |-> "get_from_working_memory", thread |-> t, key |-> threads[t].key,
                    raised |-> TRUE]
    /\ UNCHANGED <<sysVars, wmVars, dbVars, msVars, calls, hits>>


Init ==
    /\ memories = <<>>
    /\ seq = 0
    /\ context_index = {}
    /\ associations = {}
    /\ issued = {}
    /\ evicted = {}
    /\ working_memory = <<>>
    /\ write_order = <<>>
    /\ db_memories = <<>>
    /\ db_seq = 0
    /\ tags = {}
    /\ db_committed = [memories |-> <<>>, tags |-> {}, seq |-> 0]
    /\ db_issued = {}
    /\ db_evicted = {}
    /\ short_term = <<>>
    /\ long_term = <<>>
    /\ ms_seq = 0
    /\ ms_stored = <<>>
    /\ calls = [c \in Callers |-> Idle]
    /\ hits = [id \in Ids |-> 0]
    /\ threads = [t \in Threads |-> Resting]
    /\ ret = [op |-> "init"]

NextSystem ==
    \/ \E context \in StoreContexts : store(context)
    \/ \E context \in QueryContexts, limit \in Limits : retrieve_by_context(context, limit)
    \/ \E source_id, target_id \in Ids, strength \in Strengths :
          create_association(source_id, target_id, strength)
    \/ \E min_importance \in Importances, min_access_count \in 0..(MaxAccess + 1) :
          cleanup(min_importance, min_access_count)
    \/ \E memory_id \in Ids, min_strength \in MinStrengths :
          get_associated_memories(memory_id, min_strength)

NextDB ==
    \/ \E tag_list \in TagLists, importance \in DbImportances : db_store(tag_list, importance)
    \/ \E memory_id \in Ids, updates \in Updates : db_update(memory_id, updates)
    \/ \E memory_id \in Ids : db_delete(memory_id)

NextWM ==
    \/ \E key \in WMKeys, value \in WMValues : update_working_memory(key, value)
    \/ \E key \in WMKeys : get_from_working_memory(key)

NextMS ==
    \/ \E content \in Contents, memory_type \in MemoryTypes : ms_store(content, memory_type)
    \/ \E memory_id \in 1..MaxEntries : ms_retrieve(memory_id)
    \/ ms_retrieve_all
    \/ \E name \in AttributeNames : ms_getattr(name)

\* Callers of one MemorySystem database whose calls overlap.  store is one
\* transaction from its INSERT to its commit and needs the write lock.
NextCallers ==
    \/ NoWriter /\ \E context \in ConcurrentStoreContexts : store(context)
    \/ \E c \in Callers, context \in ConcurrentQueryContexts, limit \in Limits :
          retrieve_select(c, context, limit)
    \/ \E c \in Callers, min_importance \in {6}, min_access_count \in 1..MaxAccess :
          cleanup_select(c, min_importance, min_access_count)
    \/ \E c \in Callers : begin_write(c)
    \/ \E c \in Callers : database_is_locked(c)
    \/ \E c \in Callers : retrieve_commit(c)
    \/ \E c \in Callers : cleanup_commit(c)

\* Threads of one process in the working-memory methods of one MemorySystem.
NextThreads ==
    \/ \E t \in Threads, key \in WMKeys, value \in {1} : wm_setitem(t, key, value)
    \/ \E t \in Threads : wm_len(t)
    \/ \E t \in Threads : wm_sorted(t)
    \/ \E t \in Threads : wm_rebind(t)
    \/ \E t \in Threads, key \in WMKeys : wm_contains(t, key)
    \/ \E t \in Threads : wm_getitem(t)

\* MemorySystem and MemoryDatabase share no table: the reachable states of
\* their interleavings are the pairs of states each reaches alone, so each
\* store is explored with the other one still as constructed.
NextStores ==
    \/ db_seq = 0 /\ NextSystem
    \/ seq = 0 /\ associations = {} /\ NextDB

\* The calls a client of section 6's API makes to delete records and to link
\* them: MemoryDatabase is the only class with a delete, MemorySystem the
\* only one with associations, whose ids are whatever integers the caller
\* passes.
NextFacade ==
    \/ NextDB
    \/ \E source_id, target_id \in Ids, strength \in Strengths :
          create_association(source_id, target_id, strength)

\* ------------------------------------------------------------------ claims
\* The ids of the records a retrieve_by_context call returned.
Returned(r) == {r.val[i].id : i \in DOMAIN r.val}

HasTag(id, k, v) ==
    [memory_id |-> id, context_key |-> k, context_value |-> v] \in context_index

IsRetrieve(r) == r.op = "retrieve_by_context" /\ ~r.raised

\* C1: in every reachable state every context_index row of MemorySystem and
\* every tags row of MemoryDatabase (as the connection sees the table and as
\* committed) names the id of a record that exists in its store.
C1_NoOrphanIndexEntry ==
    /\ \A ci \in context_index : ci.memory_id \in DOMAIN memories
    /\ \A t \in tags : t.memory_id \in DOMAIN db_memories
    /\ \A t \in db_committed.tags : t.memory_id \in DOMAIN db_committed.memories

\* A cleanup has just deleted index rows of a removed record while index rows
\* of another record remain.
C1_Witness ==
    /\ ret.op = "cleanup"
    /\ ret.index_rows > 0
    /\ context_index # {}

\* C2: a store call that raises leaves no record and no index entry behind:
\* the tables are as they were before the call, in the connection's view and
\* in what is committed.
C2_StoreAtomic ==
    [][(ret'.op \in {"store", "db_store"} /\ ret'.raised) =>
          /\ memories' = memories /\ context_index' = context_index
          /\ db_memories' = db_memories /\ tags' = tags]_vars

\* C3 as claimed: a retrieve_by_context call with the single tag (k,v)
\* returns every live record indexed under (k,v), whatever the limit.
C3_RoundTripAnyLimit ==
    [][(IsRetrieve(ret') /\ Cardinality(DOMAIN ret'.context) = 1) =>
          \A id \in DOMAIN memories, k \in DOMAIN ret'.context :
             HasTag(id, k, ret'.context[k]) => id \in Returned(ret')]_vars

\* C3 amended: a retrieve_by_context call with the single tag (k,v) returns
\* a live record indexed under (k,v) unless it returns `limit` other records,
\* each indexed under (k,v) and ranked at least as high (importance, then
\* access_count, as before the call); so it returns the record whenever at
\* most `limit` live records carry the tag.
C3_RoundTripWithinLimit ==
    [][(IsRetrieve(ret') /\ Cardinality(DOMAIN ret'.context) = 1) =>
          \A id \in DOMAIN memories, k \in DOMAIN ret'.context :
             HasTag(id, k, ret'.context[k]) =>
                \/ id \in Returned(ret')
                \/ /\ Len(ret'.val) = ret'.limit
                   /\ \A r \in Returned(ret') :
                         HasTag(r, k, ret'.context[k]) /\ OrderedBy(r, id)]_vars

\* A single-tag query has returned two records that carry the tag.
C3_Witness ==
    /\ IsRetrieve(ret)
    /\ Cardinality(DOMAIN ret.context) = 1
    /\ Len(ret.val) = 2
    /\ \A id \in Returned(ret), k \in DOMAIN ret.context : HasTag(id, k, ret.context[k])

\* C4: no step lowers a record's access_count; a retrieve_by_context call
\* adds exactly 1 to the access_count of each record it returns and sets its
\* last_accessed to the clock's reading, and leaves every other row as it
\* was, the rows that matched but fell beyond the limit included.
C4_MonotonicAccess ==
    [][/\ \A id \in DOMAIN memories \cap DOMAIN memories' :
             memories'[id].access_count >= memories[id].access_count
       /\ IsRetrieve(ret') =>
             /\ DOMAIN memories' = DOMAIN memories
             /\ \A id \in DOMAIN memories :
                   IF id \in Returned(ret')
                   THEN /\ memories'[id].access_count = memories[id].access_count + 1
                        /\ memories'[id].last_accessed # NULL
                        /\ memories'[id].last_accessed >= memories[id].last_accessed
                   ELSE memories'[id] = memories[id]]_vars

\* A call has returned one record while a second record matched the query
\* and was cut off by the limit.
C4_Witness ==
    /\ IsRetrieve(ret)
    /\ Len(ret.val) = 1
    /\ Cardinality(Matches(ret.context)) = 2
    /\ \E id \in Matches(ret.context) \ Returned(ret) : memories[id].access_count = 0

\* C5: cleanup removes exactly the records whose importance is below
\* min_importance and whose access_count is below min_access_count; the
\* records it keeps are unchanged.
C5_CleanupConjunction ==
    [][ret'.op = "cleanup" =>
          \A id \in DOMAIN memories :
             /\ id \in DOMAIN memories' <=>
                   ~(/\ memories[id].importance < ret'.min_importance
                     /\ memories[id].access_count < ret'.min_access_count)
             /\ memories[id].importance >= ret'.min_importance => id \in DOMAIN memories'
             /\ memories[id].access_count >= ret'.min_access_count => id \in DOMAIN memories'
             /\ id \in DOMAIN memories' => memories'[id] = memories[id]]_vars

\* A cleanup has removed a record and kept another one whose importance is
\* below the threshold, on its access_count alone.
C5_Witness ==
    /\ ret.op = "cleanup"
    /\ ret.val >= 1
    /\ \E id \in DOMAIN memories :
          /\ memories[id].importance < ret.min_importance
          /\ memories[id].access_count >= ret.min_access_count

\* C6: after cleanup no context_index row and no association, as source or
\* as target, names a record the call removed, and the value returned is the
\* number of records removed.
C6_CleanupCascade ==
    [][ret'.op = "cleanup" =>
          LET removed == DOMAIN memories \ DOMAIN memories'
          IN /\ \A ci \in context_index' : ci.memory_id \notin removed
             /\ \A a \in associations' :
                   a.source_id \notin removed /\ a.target_id \notin removed
             /\ ret'.val = Cardinality(removed)]_vars

\* A cleanup has removed one record of two, with index rows and with two
\* edges (to and from the record kept, or a loop).
C6_Witness ==
    /\ ret.op = "cleanup"
    /\ ret.val = 1
    /\ ret.index_rows >= 1
    /\ ret.edge_rows = 2
    /\ Cardinality(DOMAIN memories) = 1

\* C7: delete(id) leaves no record with that id, no index row of it and no
\* association with it as source or target, and returns whether the record
\* existed.
C7_DeleteCascades ==
    [][ret'.op = "db_delete" =>
          /\ ret'.memory_id \notin DOMAIN db_memories'
          /\ \A t \in tags' : t.memory_id # ret'.memory_id
          /\ \A a \in associations' :
                a.source_id # ret'.memory_id /\ a.target_id # ret'.memory_id
          /\ ret'.val = (ret'.memory_id \in DOMAIN db_memories)]_vars

\* C8: the associations table never holds two rows for one ordered
\* (source_id, target_id) pair; after create_association(a, b, s) the row of
\* (a, b) has strength s, and every row of another pair, (b, a) included, is
\* as it was.
C8_OneEdgePerPair ==
    [][/\ \A a, b \in associations' :
             (a.source_id = b.source_id /\ a.target_id = b.target_id) => a = b
       /\ ret'.op = "create_association" =>
             /\ [source_id |-> ret'.source_id, target_id |-> ret'.target_id,
                 strength |-> ret'.strength] \in associations'
             /\ \A a \in associations \cup associations' :
                   ~(a.source_id = ret'.source_id /\ a.target_id = ret'.target_id) =>
                      (a \in associations <=> a \in associations')]_vars

\* create_association(a, b, s2) has replaced the row of (a, b), whose
\* strength was another one, while a row of (b, a) exists.
C8_Witness ==
    /\ ret.op = "create_association"
    /\ ret.replaced # {}
    /\ ret.strength \notin ret.replaced
    /\ ret.source_id # ret.target_id
    /\ \E a \in associations :
          a.source_id = ret.target_id /\ a.target_id = ret.source_id

\* C9: working_memory never holds more than working_memory_limit items once
\* a call has returned.
C9_BoundedCache == Len(working_memory) <= working_memory_limit

\* An update_working_memory call has outgrown the limit and pruned.
C9_Witness ==
    /\ ret.op = "update_working_memory"
    /\ ret.pruned
    /\ Len(working_memory) = working_memory_limit

\* C10: when update_working_memory prunes, the keys kept are the
\* working_memory_limit most recently written ones (reads do not count).
C10_WriteRecencyEviction ==
    [][(ret'.op = "update_working_memory" /\ ret'.pruned) =>
          LET order == Append(Restrict(write_order, KeysOf(working_memory) \ {ret'.key}),
                              ret'.key)
              n == Len(order)
          IN KeysOf(working_memory') =
                {order[i] : i \in (n - working_memory_limit + 1)..n}]_vars

\* The live records with an index row equal to an item of `context`.
MatchSet(context) ==
    {id \in DOMAIN memories : \E k \in DOMAIN context : HasTag(id, k, context[k])}

Min(a, b) == IF a < b THEN a ELSE b

\* C11: retrieve_by_context returns only live records of which some index row
\* equals some queried (key, value) item, and min(limit, number of such
\* records) of them: a record that shares only a key or only a value with the
\* query is not returned, and with a limit that cuts nothing off every such
\* record is returned.
C11_OrSemantics ==
    [][IsRetrieve(ret') =>
          /\ Returned(ret') \subseteq MatchSet(ret'.context)
          /\ Len(ret'.val) = Min(ret'.limit, Cardinality(MatchSet(ret'.context)))
          /\ \A id \in DOMAIN memories, k \in DOMAIN ret'.context :
                (\A v \in ContextValues : HasTag(id, k, v) => v # ret'.context[k])
                /\ (\A j \in ContextKeys : HasTag(id, j, ret'.context[k]) => j # k)
                /\ Cardinality(DOMAIN ret'.context) = 1
                => id \notin Returned(ret')]_vars

\* A query for (k1, v1) with room for two records has returned one, and not
\* the live record indexed under (k1, v2) and (k2, v1), which shares a key
\* and, under another key, a value with the query.
C11_Witness ==
    /\ IsRetrieve(ret)
    /\ DOMAIN ret.context = {"k1"} /\ ret.context["k1"] = "v1"
    /\ ret.limit = 2
    /\ Len(ret.val) = 1
    /\ \E id \in DOMAIN memories \ Returned(ret) :
          HasTag(id, "k1", "v2") /\ HasTag(id, "k2", "v1")

\* a ranks strictly before b in the order of section 4.2: importance
\* descending, then access_count descending, then id ascending.
RanksBefore(a, b) ==
    \/ memories[a].importance > memories[b].importance
    \/ /\ memories[a].importance = memories[b].importance
       /\ \/ memories[a].access_count > memories[b].access_count
          \/ /\ memories[a].access_count = memories[b].access_count
             /\ a < b

C13_OutgoingEdgesByStrength ==
    [][ret'.op = "get_associated_memories" =>
          /\ {<<ret'.val[i].id, ret'.val[i].association_strength>> : i \in DOMAIN ret'.val}
                = {<<a.target_id, a.strength>> :
                      a \in {b \in associations :
                               /\ b.source_id = ret'.memory_id
                               /\ b.strength >= ret'.min_strength
                               /\ b.target_id \in DOMAIN memories}}
          /\ \A i, j \in DOMAIN ret'.val :
                /\ i < j => ret'.val[i].association_strength >= ret'.val[j].association_strength
                /\ ret'.val[i].id = ret'.val[j].id => i = j
          /\ \A id \in DOMAIN memories :
                (\A a \in associations : ~(a.source_id = ret'.memory_id /\ a.target_id = id))
                   => \A i \in DOMAIN ret'.val : ret'.val[i].id # id
          /\ sysVars' = sysVars]_vars

\* A call has returned two records, the stronger edge first, the second one
\* with a strength equal to min_strength.
C13_Witness ==
    /\ ret.op = "get_associated_memories"
    /\ Len(ret.val) = 2
    /\ ret.val[1].association_strength > ret.val[2].association_strength
    /\ ret.val[2].association_strength = ret.min_strength

\* C14: a store call that succeeds, on MemorySystem or on MemoryDatabase,
\* returns an id greater than every id an earlier store call on the same
\* object returned, whether or not the earlier records still exist.
C14_IdsNeverReused ==
    [][/\ (ret'.op = "store" /\ ~ret'.raised) => \A id \in issued : ret'.val > id
       /\ (ret'.op = "db_store" /\ ~ret'.raised) => \A id \in db_issued : ret'.val > id]_vars

\* A store has returned a new id after cleanup removed every record stored
\* before.
C14_Witness ==
    /\ ret.op = "store"
    /\ ~ret.raised
    /\ evicted # {}
    /\ evicted = issued \ {ret.val}
    /\ DOMAIN memories = {ret.val}

\* The interval [0, 1] in tenths.
UnitInterval == 0..10

\* C15: create_association with a strength outside [0, 1] writes no edge, and
\* in every state every edge strength and every record importance, of
\* MemorySystem and of MemoryDatabase, lies in [0, 1].
C15_RangeValidated ==
    [][/\ (ret'.op = "create_association" /\ ret'.strength \notin UnitInterval) =>
             associations' = associations
       /\ \A a \in associations' : a.strength \in UnitInterval
       /\ \A id \in DOMAIN memories' : memories'[id].importance \in UnitInterval
       /\ \A id \in DOMAIN db_memories' : db_memories'[id].importance \in UnitInterval]_vars

\* C16: a get_associated_memories call on an id that has no record raises
\* instead of returning a list, and a create_association call whose source or
\* target has no record writes no edge.
C16_NotFoundOnMissingId ==
    [][/\ (ret'.op = "get_associated_memories" /\ ret'.memory_id \notin DOMAIN memories) =>
             ret'.raised
       /\ (/\ ret'.op = "create_association"
           /\ ~(ret'.source_id \in DOMAIN memories /\ ret'.target_id \in DOMAIN memories)) =>
             associations' = associations]_vars

\* C17: an update or delete call of MemoryDatabase on an id without a record
\* returns False and leaves the records, the tag rows and the associations
\* as the object sees them unchanged; so the second of two delete(id) calls
\* returns False and changes nothing.
C17_MissingIdNoOp ==
    [][(/\ ret'.op \in {"db_update", "db_delete"}
        /\ ret'.memory_id \notin DOMAIN db_memories) =>
          /\ ret'.val = FALSE
          /\ db_memories' = db_memories
          /\ tags' = tags
          /\ associations' = associations]_vars

\* A second delete of the same id has returned False while another record,
\* its tag rows and an edge are there to be kept.
C17_Witness ==
    /\ ret.op = "db_delete"
    /\ ret.val = FALSE
    /\ ret.memory_id \in db_evicted
    /\ DOMAIN db_memories # {}
    /\ tags # {}
    /\ associations # {}

\* C18: an update call of MemoryDatabase on a live record returns True, and
\* when `updates` has the key tags, a tag query afterwards matches the record
\* under a tag exactly when the tag is in the new list.
C18_UpdateResyncsTags ==
    [][(ret'.op = "db_update" /\ ret'.memory_id \in DOMAIN db_memories) =>
          /\ ret'.val = TRUE
          /\ "tags" \in DOMAIN ret'.updates =>
                \A t \in {"t1", "t2"} :
                   ret'.memory_id \in TagMatches({t})' <=> t \in Range(ret'.updates.tags)]_vars

\* C19: an id whose record cleanup (MemorySystem) or delete (MemoryDatabase)
\* has removed never has a record again, and no later retrieve_by_context or
\* get_associated_memories call returns it.
C19_EvictedIsTerminal ==
    [][/\ evicted' \cap DOMAIN memories' = {}
       /\ db_evicted' \cap DOMAIN db_memories' = {}
       /\ IsRetrieve(ret') => Returned(ret') \cap evicted = {}
       /\ ret'.op = "get_associated_memories" =>
             \A i \in DOMAIN ret'.val : ret'.val[i].id \notin evicted]_vars

\* After cleanup removed a record, an edge to its id has been created again,
\* and get_associated_memories on the edge's source, with a threshold the
\* edge meets, has returned nothing.
C19_Witness ==
    /\ ret.op = "get_associated_memories"
    /\ ret.val = <<>>
    /\ \E a \in associations :
          /\ a.source_id = ret.memory_id
          /\ a.strength >= ret.min_strength
          /\ a.target_id \in evicted

\* C20: in every reachable state the source_id and the target_id of every row
\* of associations are ids of records that exist.
C20_EdgesReferToLiveRecords ==
    \A a \in associations :
        a.source_id \in DOMAIN memories /\ a.target_id \in DOMAIN memories

\* C25: a get_associated_memories call leaves every record (access_count,
\* last_accessed and importance included), every edge and every index row as
\* it was.
C25_AssociatedReadOnly ==
    [][ret'.op = "get_associated_memories" =>
          /\ memories' = memories
          /\ associations' = associations
          /\ context_index' = context_index]_vars

\* A call on a live record has returned a target that has never been
\* accessed, and still has not.
C25_Witness ==
    /\ ret.op = "get_associated_memories"
    /\ ret.memory_id \in DOMAIN memories
    /\ \E i \in DOMAIN ret.val :
          /\ memories[ret.val[i].id].access_count = 0
          /\ memories[ret.val[i].id].last_accessed = NULL

\* C27: every record of MemorySystem has the default importance 0.5 in every
\* state, and a cleanup call with min_importance <= 0.5 removes no record and
\* returns 0, whatever min_access_count is.
C27_ImportanceStaysDefault ==
    [][/\ \A id \in DOMAIN memories' : memories'[id].importance = DefaultImportance
       /\ (ret'.op = "cleanup" /\ ret'.min_importance <= DefaultImportance) =>
             /\ ret'.val = 0
             /\ memories' = memories]_vars

\* A cleanup with min_importance 0.5 and a min_access_count above the
\* access_count of a record that exists has returned 0.
C27_Witness ==
    /\ ret.op = "cleanup"
    /\ ret.min_importance = DefaultImportance
    /\ ret.val = 0
    /\ \E id \in DOMAIN memories : memories[id].access_count < ret.min_access_count

\* C28: each record a retrieve_by_context call returns carries the
\* access_count and last_accessed the record had before the call; the
\* access_count returned is one less than the one stored when the call ends.
C28_ReturnsValuesReadBeforeUpdate ==
    [][IsRetrieve(ret') =>
          \A i \in DOMAIN ret'.val :
             /\ ret'.val[i].access_count = memories[ret'.val[i].id].access_count
             /\ ret'.val[i].last_accessed = memories[ret'.val[i].id].last_accessed
             /\ ret'.val[i].access_count = memories'[ret'.val[i].id].access_count - 1]_vars

\* A record has been returned for the second time: the call reports one access
\* and the time of the first call, the table holds two accesses.
C28_Witness ==
    /\ IsRetrieve(ret)
    /\ \E i \in DOMAIN ret.val :
          /\ ret.val[i].access_count = 1
          /\ ret.val[i].last_accessed # NULL
          /\ memories[ret.val[i].id].access_count = 2
          /\ memories[ret.val[i].id].last_accessed > ret.val[i].last_accessed

\* C29: a retrieve_by_context call with an empty context raises instead of
\* returning a list, and changes no record, index row or edge.
C29_EmptyContextRaises ==
    [][(ret'.op = "retrieve_by_context" /\ DOMAIN ret'.context = {}) =>
          /\ ret'.raised
          /\ sysVars' = sysVars]_vars

\* A call with an empty context has raised while a record that has been
\* accessed before exists.
C29_Witness ==
    /\ ret.op = "retrieve_by_context"
    /\ DOMAIN ret.context = {}
    /\ ret.raised
    /\ \E id \in DOMAIN memories : memories[id].access_count > 0

\* C26: right after update_working_memory(key, value) the dict holds key with
\* value, so that get_from_working_memory(key) returns value, and the call
\* has dropped at most one key.
C26_WrittenEntrySurvives ==
    [][ret'.op = "update_working_memory" =>
          /\ \E i \in DOMAIN working_memory' :
                /\ working_memory'[i].key = ret'.key
                /\ working_memory'[i].value = ret'.value
          /\ Cardinality(KeysOf(working_memory) \ KeysOf(working_memory')) <= 1]_vars

MinOf(S) == CHOOSE m \in S : \A x \in S : m <= x

\* The ids of the entries of a MemoryStore tier.
IdsOf(list) == {list[i].id : i \in DOMAIN list}

\* MemoryStore.retrieve(id) returns the entry with the content store was
\* given for id, for every id of the long-term tier and every id still in
\* the short-term tier.
MSRoundTripById ==
    [][(/\ ret'.op = "ms_retrieve"
        /\ ret'.memory_id \in IdsOf(short_term) \cup IdsOf(long_term)) =>
          /\ ret'.found
          /\ ret'.val[1].id = ret'.memory_id
          /\ ret'.val[1].content = ms_stored[ret'.memory_id].content]_vars

\* C24: a value stored in a MemoryStore is returned by the lookup of its
\* tier: retrieve(id) returns the stored content for a long-term id and for a
\* short-term id not yet evicted, and the working-memory methods the test
\* calls (update_working_memory, get_working_memory) exist on the object.
C24_MemoryStoreRoundTrip ==
    [][/\ (/\ ret'.op = "ms_retrieve"
           /\ ret'.memory_id \in IdsOf(short_term) \cup IdsOf(long_term)) =>
             /\ ret'.found
             /\ ret'.val[1].content = ms_stored[ret'.memory_id].content
       /\ (/\ ret'.op = "ms_getattr"
           /\ ret'.name \in {"update_working_memory", "get_working_memory"}) =>
             ~ret'.raised]_vars

\* C30: the short-term list of a MemoryStore never holds more than
\* short_term_capacity entries; a short-term store at capacity drops exactly
\* the entry with the smallest id, the one inserted first, and appends the new
\* one; no step removes or changes a long-term entry, and a short-term store
\* leaves the long-term dict as it was.
C30_ShortTermFifo ==
    [][/\ Len(short_term') <= short_term_capacity
       /\ (ret'.op = "ms_store" /\ ret'.memory_type = "short_term") =>
             /\ long_term' = long_term
             /\ ret'.val \in IdsOf(short_term')
             /\ Len(short_term) = short_term_capacity =>
                   /\ IdsOf(short_term) \ IdsOf(short_term') = {MinOf(IdsOf(short_term))}
                   /\ IdsOf(short_term') \ IdsOf(short_term) = {ret'.val}
       /\ \A i \in DOMAIN long_term : i \in DOMAIN long_term' /\ long_term'[i] = long_term[i]]_vars

\* A short-term store at capacity has evicted an entry while the long-term
\* tier holds an entry stored before the evicted one.
C30_Witness ==
    /\ ret.op = "ms_store"
    /\ ret.memory_type = "short_term"
    /\ Len(short_term) = short_term_capacity
    /\ long_term # <<>>
    /\ \E id \in 1..ms_seq :
          /\ ms_stored[id].type = "short_term"
          /\ id \notin IdsOf(short_term)
          /\ \E m \in IdsOf(long_term) : m < id

\* C21: whatever way retrieve_by_context calls on separate connections
\* overlap, the access_count of a record is the number of finished calls that
\* returned it (a record starts at 0): no increment is lost.
C21_NoLostIncrement ==
    \A id \in DOMAIN memories : memories[id].access_count = hits[id]

\* Two calls have overlapped: the call that has just finished returned a
\* record with the access_count 0 it read, and the record now counts the two
\* calls that returned it.
C21_Witness ==
    /\ IsRetrieve(ret)
    /\ "caller" \in DOMAIN ret
    /\ \E i \in DOMAIN ret.val :
          /\ ret.val[i].access_count = 0
          /\ ret.val[i].id \in DOMAIN memories
          /\ memories[ret.val[i].id].access_count = 2
          /\ hits[ret.val[i].id] = 2

\* C22: when cleanup and retrieve_by_context calls overlap, every record a
\* cleanup call removes is, when it is removed, below both thresholds of the
\* call, and every record a retrieve_by_context call returns exists when the
\* call applies its access update.
C22_CleanupRetrieveAtomic ==
    [][\A c \in Callers :
          (calls[c].pc = "writing" /\ calls'[c].pc = "idle") =>
             /\ calls[c].op = "cleanup" =>
                   \A id \in DOMAIN memories \ DOMAIN memories' :
                      /\ memories[id].importance < calls[c].min_importance
                      /\ memories[id].access_count < calls[c].min_access_count
             /\ calls[c].op = "retrieve_by_context" =>
                   \A i \in DOMAIN calls[c].rows :
                      calls[c].rows[i].id \in DOMAIN memories]_vars

\* No state a thread can look at has more than the limit.
WithinLimit == Len(working_memory') <= working_memory_limit

\* The entries a thread's rebinding of the dict drops are entries its sorted
\* list held, with the value and timestamp the dict had for them: nothing
\* another thread put since the list was built is dropped or undone.
RebindDropsOnlyRanked ==
    \A t \in Threads :
       (threads[t].pc = "sorted" /\ threads'[t].pc = "idle") =>
          \A i \in DOMAIN working_memory :
             working_memory[i] \in Range(threads[t].sorted_items)

\* C23: under concurrent callers a put and its prune take effect as one
\* step: no reader sees working memory with more than the limit of entries,
\* and no prune drops an entry another caller put that the recency rule did
\* not rank.
C23_PutPruneAtomic == [][WithinLimit /\ RebindDropsOnlyRanked]_vars

\* The second half of C23 alone.
C23_NoLostPut == [][RebindDropsOnlyRanked]_vars

\* A reader's subscript never fails after its membership test succeeded.
C23_GetNeverRaises == ret.op = "get_from_working_memory" /\ "thread" \in DOMAIN ret => ~ret.raised

\* Every call on every object.  The durable tables of MemorySystem, its
\* working_memory and the tables of MemoryDatabase share no state, and the
\* specifications below explore them component by component.
Next == NextSystem \/ NextWM \/ NextDB \/ NextMS \/ NextCallers \/ NextThreads

Spec == Init /\ [][Next]_vars
SpecSystem == Init /\ [][NextSystem]_vars
SpecWM == Init /\ [][NextWM]_vars
SpecDB == Init /\ [][NextDB]_vars
SpecStores == Init /\ [][NextStores]_vars
SpecFacade == Init /\ [][NextFacade]_vars
SpecMS == Init /\ [][NextMS]_vars
SpecCallers == Init /\ [][NextCallers]_vars
SpecThreads == Init /\ [][NextThreads]_vars
====
